---- MODULE Spec2Model ----
(***************************************************************************)
(* Phabry (src/phabry.py): mirror of Phabricator revisions and their       *)
(* transactions into JSON files.  The model covers the construction of a   *)
(* Phabry object and Phabry.run(): the latest-id probe, the outer loop     *)
(* over revision pages and the inner loop over the transaction pages of    *)
(* each revision, against a remote whose content is fixed for the run and  *)
(* whose requests may fail.                                                *)
(*                                                                         *)
(* The remote is the environment.  It holds the revisions of the window as *)
(* a list of pages in 'oldest' order (ids strictly ascending, only the     *)
(* last page may be empty), the number of transaction pages of every       *)
(* revision, and the answer to the 'newest', limit 1 request.  Writes to   *)
(* the directories made by the constructor are taken to succeed.           *)
(*                                                                         *)
(* Spec runs without a window (from_date and to_date None), SpecWindow     *)
(* with each of the four windows against remotes whose revisions have one  *)
(* page of transactions, SpecFair is Spec with every enabled step          *)
(* eventually taken.                                                       *)
(***************************************************************************)
EXTENDS Integers, Sequences, FiniteSets, TLC

\* Bounds of the model
MaxId == 3
MaxPages == 3
MaxPageLen == 2
MaxTxnPages == 2

Ids == 1..MaxId

\* ------------------------------------------------------------------------
\* Values

\* rev['phid']: the opaque identity the remote gives revision i
PHID(i) == <<"PHID-DREV", i>>
NoPhid == <<"", 0>>
\* the pagination contexts of the remote: the two orders of
\* differential.revision.search, and transaction.search of one object
OldestCtx == <<"oldest", 0>>
NewestCtx == <<"newest", 0>>

\* a record of result.data of differential.revision.search
Revision(i) == [id |-> i, phid |-> PHID(i)]

\* cursors: '' (start), False (the sentinel of the code), null (the JSON
\* value of cursor.after on a last page), '0' (printed for '') and the
\* remote's tokens: "after page pos of context ctx"
EmptyCursor == [kind |-> "''", ctx |-> NoPhid, pos |-> 0]
FalseCursor == [kind |-> "False", ctx |-> NoPhid, pos |-> 0]
NoneCursor == [kind |-> "None", ctx |-> NoPhid, pos |-> 0]
ZeroCursor == [kind |-> "'0'", ctx |-> NoPhid, pos |-> 0]
Token(c, p) == [kind |-> "token", ctx |-> c, pos |-> p]

\* failures of one request: requests.post/get raises (no response),
\* raise_for_status raises (a response with an HTTP status), json.loads
\* raises, or the document carries a non-null error_code
FailKinds == {"ConnectionError", "HTTPError", "JSONDecodeError", "RemoteRejected"}

\* what the remote makes of one request: a page ("ok") or one of the failures.
\* A rejected request is answered with a well-formed document that carries
\* an error_code next to what a page carries.
Outcomes == {"ok"} \cup FailKinds

\* mutant: error_code is not looked at
RaisesUnlessRejected(o) ==
    o = "ConnectionError" \/ o = "HTTPError" \/ o = "JSONDecodeError"

\* lines 155-160 and 172-177: post/get, raise_for_status, json.loads and the
\* test of error_code; does the request raise?
Raises(o) ==
    \/ o = "ConnectionError"
    \/ o = "HTTPError"
    \/ o = "JSONDecodeError"
    \/ o = "RemoteRejected"

\* how the list of requests keeps an outcome
Sent(o) == IF o = "ok" THEN "ok" ELSE "failed"

\* from_date and to_date: None, or the timestamp parse_arguments computed
None == <<>>
FromDates == {None, <<0>>}
ToDates == {None, <<86400>>}

\* ------------------------------------------------------------------------
\* The remote

RECURSIVE Flatten(_)
Flatten(pages) ==
    IF pages = <<>> THEN <<>> ELSE Head(pages) \o Flatten(Tail(pages))

Ascending(s) == \A i \in 1..(Len(s) - 1) : s[i].id < s[i + 1].id

\* the revisions with the ids of S, oldest first
RECURSIVE PageOf(_)
PageOf(S) ==
    IF S = {} THEN <<>>
    ELSE LET m == CHOOSE i \in S : \A j \in S : i <= j IN
         <<Revision(m)>> \o PageOf(S \ {m})

AllPages == {PageOf(S) : S \in {T \in SUBSET Ids : Cardinality(T) <= MaxPageLen}}

Datasets ==
    {d \in UNION {[1..n -> AllPages] : n \in 1..MaxPages} :
        /\ Ascending(Flatten(d))
        /\ \A p \in 1..(Len(d) - 1) : d[p] # <<>>}

IdsOf(d) == {Flatten(d)[i].id : i \in 1..Len(Flatten(d))}

\* the data of the answer to order 'newest', limit 1: the last revision of
\* the window, if it has one
Newest(d) ==
    IF Flatten(d) = <<>> THEN <<>> ELSE <<Flatten(d)[Len(Flatten(d))]>>

Remotes ==
    UNION {{[pages |-> d, txns |-> t, newest |-> Newest(d)] :
               t \in [IdsOf(d) -> 1..MaxTxnPages]} :
           d \in Datasets}

\* ------------------------------------------------------------------------
\* State

\* remote: the content of the remote, fixed for the run
\* pc: "main" (no object yet), "run" (before the probe), "outer" (line 195),
\*     "for" (line 216), "inner" (line 219), "done", "aborted"
\* dirs, files: the output directories and the files in them
\* after_cursor .. file_count: the locals of run(); idx is the position of
\*     the for loop in revisions, the data of the current page
\* requests, progress, writes, log: what has been sent to the remote,
\*     printed as progress, written (with the number of the request that
\*     fetched it) and logged, in order
\* caught: the exception caught by the step just taken, "none" otherwise
\* raised: the exception that left run(); message: the line printed for it
\* from_date, to_date: the window the object was constructed with
VARIABLES
    remote,
    pc, dirs, files,
    after_cursor, first_rev_id, last_rev_id, revisions, idx,
    after_cursor_transactions, file_count,
    requests, caught, progress, writes, log, raised, message,
    from_date, to_date

vars == <<remote, pc, dirs, files, after_cursor, first_rev_id, last_rev_id,
          revisions, idx, after_cursor_transactions, file_count,
          requests, caught, progress, writes, log, raised, message,
          from_date, to_date>>

\* ------------------------------------------------------------------------
\* The remote's answers to a request that does not fail.  A document is
\* named by its context and page number; it is what json.dump writes.

Doc(c, n) == [ctx |-> c, page |-> n]

\* the page an 'after' value asks for, 0 for a value the context never gave
PageAsked(after, c, npages) ==
    IF after = EmptyCursor THEN 1
    ELSE IF after.kind = "token" /\ after.ctx = c /\ after.pos \in 1..(npages - 1)
         THEN after.pos + 1
         ELSE 0

RevisionSearch(after, order, limit) ==
    IF order = "newest"
    THEN [doc |-> Doc(NewestCtx, 1), data |-> remote.newest,
          after |-> IF Len(Flatten(remote.pages)) > limit
                    THEN Token(NewestCtx, 1) ELSE NoneCursor]
    ELSE LET n == PageAsked(after, OldestCtx, Len(remote.pages)) IN
         [doc |-> Doc(OldestCtx, n), data |-> remote.pages[n],
          after |-> IF n < Len(remote.pages)
                    THEN Token(OldestCtx, n) ELSE NoneCursor]

TransactionSearch(phid, after) ==
    LET n == PageAsked(after, phid, remote.txns[phid[2]]) IN
    [doc |-> Doc(phid, n),
     after |-> IF n < remote.txns[phid[2]] THEN Token(phid, n) ELSE NoneCursor]

\* a request the remote can answer with a page
Answerable(endpoint, phid, after, order) ==
    IF endpoint = "transaction.search"
    THEN PageAsked(after, phid, remote.txns[phid[2]]) # 0
    ELSE order = "newest" \/ PageAsked(after, OldestCtx, Len(remote.pages)) # 0

\* ------------------------------------------------------------------------
\* Phabry.get_revisions and Phabry.get_transactions, when no exception is
\* raised: the decoded document and the cursor, False standing for null

get_revisions(after, order, limit) ==
    LET document == RevisionSearch(after, order, limit) IN
    [revisions |-> document,
     after_cursor |-> IF document.after = NoneCursor
                      THEN FalseCursor ELSE document.after]

get_transactions(revision_phid, after) ==
    LET document == TransactionSearch(revision_phid, after) IN
    [transactions |-> document,
     after_cursor |-> IF document.after = NoneCursor
                      THEN FalseCursor ELSE document.after]

\* mutant: both constraints are sent as soon as the window has a start
ConstraintsOfStart(from, to) ==
    IF from # None
    THEN {<<"constraints[createdStart]", from>>,
          <<"constraints[createdEnd]", to>>}
    ELSE {}

\* lines 151-154: the constraint fields of data, each with its value
Constraints(from, to) ==
    (IF from # None THEN {<<"constraints[createdStart]", from>>} ELSE {})
        \cup (IF to # None THEN {<<"constraints[createdEnd]", to>>} ELSE {})

\* one request as the remote sees it, with how it ended: "ok" or "failed";
\* only get_revisions sends constraints
Request(endpoint, phid, after, order, limit, outcome) ==
    [endpoint |-> endpoint, object |-> phid, after |-> after,
     order |-> order, limit |-> limit, outcome |-> outcome,
     constraints |-> IF endpoint = "differential.revision.search"
                     THEN Constraints(from_date, to_date) ELSE {}]

\* Python's // on integers, for a divisor that is not 0
FloorDiv(a, b) == IF b > 0 THEN a \div b ELSE (0 - a) \div (0 - b)

\* file_name of lines 207-208: str(first_rev_id) + '-' + str(last_rev_id)
RevisionsFileName(first, last) == <<first, last>>

\* file_name of line 223: str(rev['id']) + '_' + str(file_count)
TransactionsFileName(rev, count) == <<rev.id, count>>

\* mutant: the page index never grows
KeepFileCount(count, cursor) == count

\* lines 227-228: file_count after a page was written
NextFileCount(count, cursor) ==
    IF cursor # FalseCursor THEN count + 1 ELSE count

\* mutant: every page sets first_rev_id
FirstOfPage(first, current_first) == current_first

\* lines 200-201: first_rev_id after a page whose first id is current_first
FirstRevId(first, current_first) ==
    IF first = 0 THEN current_first ELSE first

\* mutant: the share of the ids still to come
PercentLeft(current_first, first, last) ==
    FloorDiv((last - current_first) * 100, last - first)

\* the percentage printed by lines 204-205, for last # first
Percent(current_first, first, last) ==
    FloorDiv((current_first - first) * 100, last - first)

\* Phabry.handle_exception: the one record it hands to log.error (kept in
\* log by its level and the object it names) and the text of that record.
\* A RequestException built from (error_code, error_info) has errno set.
handle_exception(exception, object_type) ==
    [record |-> [level |-> "ERROR", object_type |-> object_type],
     text |-> IF exception \in {"ConnectionError", "HTTPError", "RemoteRejected"}
              THEN IF exception = "HTTPError"
                   THEN "%s failed with http status %i"
                   ELSE IF exception = "RemoteRejected"
                        THEN "%s failed with error: %s - %s"
                        ELSE "%s failed with error: %s"
              ELSE IF exception = "JSONDecodeError"
                   THEN "Reading JSON for %s failed"
                   ELSE "Unknown error occurred for %s: %s"]

\* open(..., 'w') and json.dump: the file of that name now holds the document
WriteFile(fs, dir, name, doc) ==
    {f \in fs : ~(f.dir = dir /\ f.name = name)}
        \cup {[dir |-> dir, name |-> name, content |-> doc]}


\* ------------------------------------------------------------------------
\* Initial state: the process has started, no Phabry object exists yet

\* the start of a process whose remote is one of remotes and whose
\* arguments give one of the starts and one of the ends of the window
Start(remotes, froms, tos) ==
    /\ remote \in remotes
    /\ from_date \in froms
    /\ to_date \in tos
    /\ pc = "main"
    /\ dirs = {}
    /\ files = {}
    /\ after_cursor = EmptyCursor
    /\ first_rev_id = 0
    /\ last_rev_id = 0
    /\ revisions = <<>>
    /\ idx = 0
    /\ after_cursor_transactions = EmptyCursor
    /\ file_count = 0
    /\ requests = <<>>
    /\ caught = "none"
    /\ progress = <<>>
    /\ writes = <<>>
    /\ log = <<>>
    /\ raised = "none"
    /\ message = <<>>

\* a run without -s and -e
Init == Start(Remotes, {None}, {None})

\* a run with any of the four windows, against a remote whose revisions have
\* one page of transactions each
WindowRemotes == {r \in Remotes : \A i \in DOMAIN r.txns : r.txns[i] = 1}
InitWindow == Start(WindowRemotes, FromDates, ToDates)

\* Phabry.__init__: makes both output directories
Construct ==
    /\ pc = "main"
    /\ pc' = "run"
    /\ dirs' = dirs \cup {"revisions", "transactions"}
    /\ caught' = "none"
    /\ UNCHANGED <<from_date, to_date, remote, files, after_cursor, first_rev_id, last_rev_id,
                   revisions, idx, after_cursor_transactions, file_count,
                   requests, progress, writes, log, raised, message>>

\* mutant: the cursor of the probe's answer is kept in after_cursor
ProbeOkKeepsCursor ==
    /\ pc = "run"
    /\ LET r == get_revisions(EmptyCursor, "newest", 1) IN
       /\ r.revisions.data # <<>>
       /\ last_rev_id' = r.revisions.data[1].id
       /\ after_cursor' = r.after_cursor
    /\ first_rev_id' = 0
    /\ \E o \in Outcomes :
          /\ ~Raises(o)
          /\ requests' = Append(requests,
                 Request("differential.revision.search", NoPhid, EmptyCursor,
                         "newest", 1, Sent(o)))
    /\ caught' = "none"
    /\ pc' = "outer"
    /\ UNCHANGED <<from_date, to_date, remote, dirs, files, revisions, idx,
                   after_cursor_transactions, file_count, progress, writes,
                   log, raised, message>>

\* run, lines 186-191: the probe answers with a revision
ProbeOk ==
    /\ pc = "run"
    /\ LET r == get_revisions(EmptyCursor, "newest", 1) IN
       /\ r.revisions.data # <<>>
       /\ last_rev_id' = r.revisions.data[1].id
    /\ after_cursor' = EmptyCursor
    /\ first_rev_id' = 0
    /\ \E o \in Outcomes :
          /\ ~Raises(o)
          /\ requests' = Append(requests,
                 Request("differential.revision.search", NoPhid, EmptyCursor,
                         "newest", 1, Sent(o)))
    /\ caught' = "none"
    /\ pc' = "outer"
    /\ UNCHANGED <<from_date, to_date, remote, dirs, files, revisions, idx,
                   after_cursor_transactions, file_count, progress, writes,
                   log, raised, message>>

\* run, lines 189-194: the probe request fails
ProbeFail ==
    /\ pc = "run"
    /\ \E e \in Outcomes :
          /\ Raises(e)
          /\ requests' = Append(requests,
                 Request("differential.revision.search", NoPhid, EmptyCursor,
                         "newest", 1, "failed"))
          /\ caught' = e
          /\ raised' = e
    /\ message' = <<"Getting the latest revision failed.", NoneCursor>>
    /\ pc' = "aborted"
    /\ UNCHANGED <<from_date, to_date, remote, dirs, files, after_cursor, first_rev_id,
                   last_rev_id, revisions, idx, after_cursor_transactions,
                   file_count, progress, writes, log>>

\* run, lines 189-194: the probe answers with no revision, data[0] raises
ProbeEmpty ==
    /\ pc = "run"
    /\ get_revisions(EmptyCursor, "newest", 1).revisions.data = <<>>
    /\ \E o \in Outcomes :
          /\ ~Raises(o)
          /\ requests' = Append(requests,
                 Request("differential.revision.search", NoPhid, EmptyCursor,
                         "newest", 1, Sent(o)))
    /\ caught' = "IndexError"
    /\ raised' = "IndexError"
    /\ message' = <<"Getting the latest revision failed.", NoneCursor>>
    /\ pc' = "aborted"
    /\ UNCHANGED <<from_date, to_date, remote, dirs, files, after_cursor, first_rev_id,
                   last_rev_id, revisions, idx, after_cursor_transactions,
                   file_count, progress, writes, log>>

\* the cursor named by the message of lines 212-213
MessageCursor(c) == IF c = EmptyCursor THEN ZeroCursor ELSE c

\* mutant: the failure of a page request is logged and the loop ended, as
\* for transactions
RevisionsFailHandled ==
    /\ pc = "outer"
    /\ after_cursor # FalseCursor
    /\ \E e \in Outcomes :
          /\ Raises(e)
          /\ requests' = Append(requests,
                 Request("differential.revision.search", NoPhid, after_cursor,
                         "oldest", 100, "failed"))
          /\ caught' = e
          /\ log' = Append(log, handle_exception(e, 0).record)
    /\ after_cursor' = FalseCursor
    /\ UNCHANGED <<from_date, to_date, remote, pc, dirs, files, first_rev_id, last_rev_id,
                   revisions, idx, after_cursor_transactions, file_count,
                   progress, writes, raised, message>>

\* run, lines 195-197 and 211-214: the request for a revision page fails
RevisionsFail ==
    /\ pc = "outer"
    /\ after_cursor # FalseCursor
    /\ \E e \in Outcomes :
          /\ Raises(e)
          /\ requests' = Append(requests,
                 Request("differential.revision.search", NoPhid, after_cursor,
                         "oldest", 100, "failed"))
          /\ caught' = e
          /\ raised' = e
    /\ after_cursor' = MessageCursor(after_cursor)
    /\ message' = <<"Getting the revisions after", MessageCursor(after_cursor)>>
    /\ pc' = "aborted"
    /\ UNCHANGED <<from_date, to_date, remote, dirs, files, first_rev_id, last_rev_id, revisions,
                   idx, after_cursor_transactions, file_count, progress,
                   writes, log>>

\* run, lines 195-198 and 211-214: the page is empty, data[0] raises
RevisionsEmpty ==
    /\ pc = "outer"
    /\ after_cursor # FalseCursor
    /\ Answerable("differential.revision.search", NoPhid, after_cursor, "oldest")
    /\ LET r == get_revisions(after_cursor, "oldest", 100) IN
       /\ r.revisions.data = <<>>
       /\ revisions' = r.revisions.data
       /\ after_cursor' = MessageCursor(r.after_cursor)
       /\ message' = <<"Getting the revisions after", MessageCursor(r.after_cursor)>>
    /\ \E o \in Outcomes :
          /\ ~Raises(o)
          /\ requests' = Append(requests,
                 Request("differential.revision.search", NoPhid, after_cursor,
                         "oldest", 100, Sent(o)))
    /\ caught' = "IndexError"
    /\ raised' = "IndexError"
    /\ pc' = "aborted"
    /\ UNCHANGED <<from_date, to_date, remote, dirs, files, first_rev_id, last_rev_id, idx,
                   after_cursor_transactions, file_count, progress, writes,
                   log>>

\* run, lines 195-206 and 211-214: last_rev_id - first_rev_id is 0, // raises
RevisionsZeroDivision ==
    /\ pc = "outer"
    /\ after_cursor # FalseCursor
    /\ Answerable("differential.revision.search", NoPhid, after_cursor, "oldest")
    /\ LET r == get_revisions(after_cursor, "oldest", 100)
           current_first_rev_id == r.revisions.data[1].id
           first == FirstRevId(first_rev_id, current_first_rev_id)
       IN
       /\ r.revisions.data # <<>>
       /\ last_rev_id - first = 0
       /\ first_rev_id' = first
       /\ revisions' = r.revisions.data
       /\ after_cursor' = MessageCursor(r.after_cursor)
       /\ message' = <<"Getting the revisions after", MessageCursor(r.after_cursor)>>
    /\ \E o \in Outcomes :
          /\ ~Raises(o)
          /\ requests' = Append(requests,
                 Request("differential.revision.search", NoPhid, after_cursor,
                         "oldest", 100, Sent(o)))
    /\ caught' = "ZeroDivisionError"
    /\ raised' = "ZeroDivisionError"
    /\ pc' = "aborted"
    /\ UNCHANGED <<from_date, to_date, remote, dirs, files, last_rev_id, idx,
                   after_cursor_transactions, file_count, progress, writes,
                   log>>

\* run, lines 195-210: the page is fetched, its progress printed, its
\* document written; the for loop of line 216 is entered
RevisionsOk ==
    /\ pc = "outer"
    /\ after_cursor # FalseCursor
    /\ Answerable("differential.revision.search", NoPhid, after_cursor, "oldest")
    /\ LET r == get_revisions(after_cursor, "oldest", 100)
           current_first_rev_id == r.revisions.data[1].id
           first == FirstRevId(first_rev_id, current_first_rev_id)
           current_last_rev_id == r.revisions.data[Len(r.revisions.data)].id
           file_name == RevisionsFileName(first, last_rev_id)
       IN
       /\ r.revisions.data # <<>>
       /\ last_rev_id - first # 0
       /\ first_rev_id' = first
       /\ revisions' = r.revisions.data
       /\ after_cursor' = r.after_cursor
       /\ progress' = Append(progress,
              [current_first_rev_id |-> current_first_rev_id,
               current_last_rev_id |-> current_last_rev_id,
               last_rev_id |-> last_rev_id,
               percent |-> Percent(current_first_rev_id, first, last_rev_id)])
       /\ files' = WriteFile(files, "revisions", file_name, r.revisions.doc)
       /\ writes' = Append(writes, [dir |-> "revisions", name |-> file_name,
              content |-> r.revisions.doc, req |-> Len(requests) + 1])
    /\ \E o \in Outcomes :
          /\ ~Raises(o)
          /\ requests' = Append(requests,
                 Request("differential.revision.search", NoPhid, after_cursor,
                         "oldest", 100, Sent(o)))
    /\ caught' = "none"
    /\ idx' = 1
    /\ pc' = "for"
    /\ UNCHANGED <<from_date, to_date, remote, dirs, last_rev_id, after_cursor_transactions,
                   file_count, log, raised, message>>

\* run, line 195: the while loop ends, run returns
RunReturn ==
    /\ pc = "outer"
    /\ after_cursor = FalseCursor
    /\ pc' = "done"
    /\ caught' = "none"
    /\ UNCHANGED <<from_date, to_date, remote, dirs, files, after_cursor, first_rev_id,
                   last_rev_id, revisions, idx, after_cursor_transactions,
                   file_count, requests, progress, writes, log, raised,
                   message>>

\* run, lines 216-218: the next revision of the page
ForNext ==
    /\ pc = "for"
    /\ idx <= Len(revisions)
    /\ after_cursor_transactions' = EmptyCursor
    /\ file_count' = 0
    /\ pc' = "inner"
    /\ caught' = "none"
    /\ UNCHANGED <<from_date, to_date, remote, dirs, files, after_cursor, first_rev_id,
                   last_rev_id, revisions, idx, requests, progress, writes,
                   log, raised, message>>

\* run, line 216: the page has no further revision, back to line 195
ForEnd ==
    /\ pc = "for"
    /\ idx > Len(revisions)
    /\ pc' = "outer"
    /\ caught' = "none"
    /\ UNCHANGED <<from_date, to_date, remote, dirs, files, after_cursor, first_rev_id,
                   last_rev_id, revisions, idx, after_cursor_transactions,
                   file_count, requests, progress, writes, log, raised,
                   message>>

\* run, lines 219-228: a transaction page is fetched and written
TransactionsOk ==
    /\ pc = "inner"
    /\ after_cursor_transactions # FalseCursor
    /\ LET rev == revisions[idx] IN
       /\ Answerable("transaction.search", rev.phid,
                     after_cursor_transactions, "")
       /\ LET t == get_transactions(rev.phid, after_cursor_transactions)
              file_name == TransactionsFileName(rev, file_count)
          IN
          /\ after_cursor_transactions' = t.after_cursor
          /\ files' = WriteFile(files, "transactions", file_name,
                                t.transactions.doc)
          /\ writes' = Append(writes, [dir |-> "transactions",
                 name |-> file_name, content |-> t.transactions.doc,
                 req |-> Len(requests) + 1])
          /\ file_count' = NextFileCount(file_count, t.after_cursor)
       /\ \E o \in Outcomes :
             /\ ~Raises(o)
             /\ requests' = Append(requests,
                    Request("transaction.search", rev.phid,
                            after_cursor_transactions, "", 0, Sent(o)))
       /\ caught' = "none"
    /\ UNCHANGED <<from_date, to_date, remote, pc, dirs, after_cursor, first_rev_id, last_rev_id,
                   revisions, idx, progress, log, raised, message>>

\* mutant: the failure of a transaction request is raised out of run()
TransactionsFailRaised ==
    /\ pc = "inner"
    /\ after_cursor_transactions # FalseCursor
    /\ LET rev == revisions[idx] IN
       \E e \in Outcomes :
          /\ Raises(e)
          /\ requests' = Append(requests,
                 Request("transaction.search", rev.phid,
                         after_cursor_transactions, "", 0, "failed"))
          /\ caught' = e
          /\ raised' = e
    /\ pc' = "aborted"
    /\ UNCHANGED <<from_date, to_date, remote, dirs, files, after_cursor, first_rev_id,
                   last_rev_id, revisions, idx, after_cursor_transactions,
                   file_count, progress, writes, log, message>>

\* mutant: a failed transaction request is logged and the cursor kept
TransactionsFailRetry ==
    /\ pc = "inner"
    /\ after_cursor_transactions # FalseCursor
    /\ LET rev == revisions[idx] IN
       \E e \in Outcomes :
          /\ Raises(e)
          /\ requests' = Append(requests,
                 Request("transaction.search", rev.phid,
                         after_cursor_transactions, "", 0, "failed"))
          /\ caught' = e
          /\ log' = Append(log, handle_exception(e, rev.id).record)
    /\ UNCHANGED <<from_date, to_date, remote, pc, dirs, files, after_cursor,
                   first_rev_id, last_rev_id, revisions, idx,
                   after_cursor_transactions, file_count, progress, writes,
                   raised, message>>

\* run, lines 219-222 and 229-232: a transaction request fails
TransactionsFail ==
    /\ pc = "inner"
    /\ after_cursor_transactions # FalseCursor
    /\ LET rev == revisions[idx] IN
       \E e \in Outcomes :
          /\ Raises(e)
          /\ requests' = Append(requests,
                 Request("transaction.search", rev.phid,
                         after_cursor_transactions, "", 0, "failed"))
          /\ caught' = e
          /\ log' = Append(log, handle_exception(e, rev.id).record)
    /\ after_cursor_transactions' = FalseCursor
    /\ UNCHANGED <<from_date, to_date, remote, pc, dirs, files, after_cursor, first_rev_id,
                   last_rev_id, revisions, idx, file_count, progress, writes,
                   raised, message>>

\* mutant: the end of a walk does not move the for loop on
WhileEndAgain ==
    /\ pc = "inner"
    /\ after_cursor_transactions = FalseCursor
    /\ pc' = "for"
    /\ caught' = "none"
    /\ UNCHANGED <<from_date, to_date, remote, dirs, files, after_cursor,
                   first_rev_id, last_rev_id, revisions, idx,
                   after_cursor_transactions, file_count, requests, progress,
                   writes, log, raised, message>>

\* mutant: the end of a walk leaves the for loop
WhileEndBreak ==
    /\ pc = "inner"
    /\ after_cursor_transactions = FalseCursor
    /\ pc' = "outer"
    /\ caught' = "none"
    /\ UNCHANGED <<from_date, to_date, remote, dirs, files, after_cursor,
                   first_rev_id, last_rev_id, revisions, idx,
                   after_cursor_transactions, file_count, requests, progress,
                   writes, log, raised, message>>

\* run, line 219: the inner while loop ends, the for loop goes on
WhileEnd ==
    /\ pc = "inner"
    /\ after_cursor_transactions = FalseCursor
    /\ idx' = idx + 1
    /\ pc' = "for"
    /\ caught' = "none"
    /\ UNCHANGED <<from_date, to_date, remote, dirs, files, after_cursor, first_rev_id,
                   last_rev_id, revisions, after_cursor_transactions,
                   file_count, requests, progress, writes, log, raised,
                   message>>

Next ==
    \/ Construct
    \/ ProbeOk
    \/ ProbeFail
    \/ ProbeEmpty
    \/ RevisionsOk
    \/ RevisionsFail
    \/ RevisionsEmpty
    \/ RevisionsZeroDivision
    \/ RunReturn
    \/ ForNext
    \/ ForEnd
    \/ TransactionsOk
    \/ TransactionsFail
    \/ WhileEnd

Spec == Init /\ [][Next]_vars

\* the same program, started with any window
SpecWindow == InitWindow /\ [][Next]_vars

\* the same program when the interpreter keeps executing run() and every
\* request is answered or raises: a step that can be taken is taken
SpecFair == Init /\ [][Next]_vars /\ WF_vars(Next)


\* ------------------------------------------------------------------------
\* Vocabulary of the properties

IsTxn(q) == q.endpoint = "transaction.search"
IsProbe(q) == q.endpoint = "differential.revision.search" /\ q.order = "newest"
IsPage(q) == q.endpoint = "differential.revision.search" /\ q.order = "oldest"
Failed(q) == q.outcome = "failed"
WalkStart(q) == IsTxn(q) /\ q.after = EmptyCursor
InRevisions(w) == w.dir = "revisions"
InTransactions(w) == w.dir = "transactions"

\* the requests that began the transaction walk of a revision, in order
WalkStarts == SelectSeq(requests, WalkStart)

\* the number of revision pages fetched and written so far
PagesWritten == Len(SelectSeq(writes, InRevisions))

\* the revisions the run has reached: those of the pages written before the
\* current one, and those of the current page up to the position of the
\* for loop
Reached ==
    LET n == PagesWritten
        cur == remote.pages[n]
        upto == IF pc = "for" THEN idx - 1
                ELSE IF pc = "inner"
                     THEN IF after_cursor_transactions = EmptyCursor
                          THEN idx - 1 ELSE idx
                     ELSE Len(cur)
    IN IF n = 0 THEN <<>>
       ELSE Flatten(SubSeq(remote.pages, 1, n - 1)) \o SubSeq(cur, 1, upto)

\* the number of the page a request of the 'oldest' context asked for
PageNo(q) == PageAsked(q.after, OldestCtx, Len(remote.pages))

\* ------------------------------------------------------------------------
\* C1: a failed transaction request for revision R ends the inner loop of R
\* at once (no later request names R), never aborts the run, and skips no
\* revision: the walks begun from the empty cursor are, in order, exactly
\* the revisions the run has reached, whatever requests failed before.
C1_TransactionFailureIsLocal ==
    /\ \A k \in 1..Len(requests) :
          (IsTxn(requests[k]) /\ Failed(requests[k])) =>
              /\ \A j \in (k + 1)..Len(requests) :
                    requests[j].object # requests[k].object
              /\ (pc = "aborted" => k < Len(requests))
    /\ (pc = "aborted" => ~IsTxn(requests[Len(requests)]))
    /\ [i \in 1..Len(WalkStarts) |-> WalkStarts[i].object]
           = [i \in 1..Len(Reached) |-> Reached[i].phid]

\* a transaction request failed, a later revision page was fetched and the
\* walk of one of its revisions has begun
C1_Witness ==
    \E k \in 1..Len(requests) : \E m \in (k + 1)..Len(requests) :
        \E j \in (m + 1)..Len(requests) :
            /\ IsTxn(requests[k]) /\ Failed(requests[k])
            /\ IsPage(requests[m]) /\ ~Failed(requests[m])
            /\ WalkStart(requests[j])

\* C2: a failed request for a revision page is the last request of the run:
\* no later page and no transaction is requested, and the run ends with the
\* failure raised out of run().
C2_PageFailureAborts ==
    \A k \in 1..Len(requests) :
        (IsPage(requests[k]) /\ Failed(requests[k])) =>
            /\ k = Len(requests)
            /\ pc = "aborted"
            /\ raised \in FailKinds
            /\ raised = caught

\* the request for a page after the first failed, after transactions of the
\* first page had been requested
C2_Witness ==
    /\ pc = "aborted"
    /\ Len(requests) >= 3
    /\ IsPage(requests[Len(requests)]) /\ Failed(requests[Len(requests)])
    /\ PageNo(requests[Len(requests)]) >= 2
    /\ \E k \in 1..Len(requests) : IsTxn(requests[k])


RevisionFiles == {f \in files : f.dir = "revisions"}
TransactionFiles(r) == {f \in files : f.dir = "transactions" /\ f.name[1] = r}

\* C3: no write of the run targets a file name an earlier write used, so the
\* revisions directory holds one artifact per page fetched and written, each
\* with the document of its page.
C3_ArtifactsImmutable ==
    /\ \A i \in 1..Len(writes) : \A j \in (i + 1)..Len(writes) :
          ~(writes[i].dir = writes[j].dir /\ writes[i].name = writes[j].name)
    /\ Cardinality(RevisionFiles) = PagesWritten
    /\ \A n \in 1..PagesWritten :
          \E f \in RevisionFiles : f.content = Doc(OldestCtx, n)

\* the transaction requests for revision r that were answered with a page
OkTransactions(r) ==
    Len(SelectSeq(requests,
                  LAMBDA q : IsTxn(q) /\ q.object = PHID(r) /\ ~Failed(q)))

\* C4: at every point of the run the transaction artifacts of revision r are
\* exactly r_0 .. r_(k-1), k the number of its transaction pages fetched so
\* far, artifact r_j holding page j+1 and each written once; so a failed
\* fetch of page k leaves no r_k or later.
C4_TransactionArtifacts ==
    \A r \in Ids :
        LET k == OkTransactions(r) IN
        /\ {f.name : f \in TransactionFiles(r)} = {<<r, j>> : j \in 0..(k - 1)}
        /\ \A f \in TransactionFiles(r) : f.content = Doc(PHID(r), f.name[2] + 1)
        /\ Len(SelectSeq(writes,
                  LAMBDA w : InTransactions(w) /\ w.name[1] = r)) = k

\* the second transaction page of a revision failed after its first was
\* written: r_0 is there and r_1 is not
C4_Witness ==
    \E r \in Ids :
        /\ OkTransactions(r) = 1
        /\ \E k \in 1..Len(requests) :
              /\ IsTxn(requests[k]) /\ Failed(requests[k])
              /\ requests[k].object = PHID(r)
              /\ requests[k].after = Token(PHID(r), 1)
        /\ {f.name : f \in TransactionFiles(r)} = {<<r, 0>>}

\* the walk of revision r has ended: its last request failed or was answered
\* with the last page
WalkFinished(r) ==
    \E k \in 1..Len(requests) :
        /\ IsTxn(requests[k]) /\ requests[k].object = PHID(r)
        /\ \A j \in (k + 1)..Len(requests) : requests[j].object # PHID(r)
        /\ \/ Failed(requests[k])
           \/ PageAsked(requests[k].after, PHID(r), remote.txns[r]) = remote.txns[r]

\* C5: when the request for revision page n >= 2 fails, then at the abort
\* the artifact of each page 1..n-1 is there with the document of that page,
\* the walk of every revision of those pages has ended, and nothing of page
\* n was written.
C5_AbortKeepsEarlierPages ==
    LET last == requests[Len(requests)]
        n == PageNo(last)
    IN (pc = "aborted" /\ IsPage(last) /\ Failed(last) /\ n >= 2) =>
          /\ \A m \in 1..(n - 1) :
                \E f \in RevisionFiles : f.content = Doc(OldestCtx, m)
          /\ \A r \in IdsOf(SubSeq(remote.pages, 1, n - 1)) : WalkFinished(r)
          /\ \A f \in RevisionFiles : f.content # Doc(OldestCtx, n)
          /\ \A r \in IdsOf(<<remote.pages[n]>>) : TransactionFiles(r) = {}

\* C6: when the window holds no revision (the first page is empty, cursor
\* exhausted) and no request fails, run() raises nothing and requests no
\* transaction.
C6_EmptyWindowEndsCleanly ==
    (/\ remote.pages[1] = <<>>
     /\ \A k \in 1..Len(requests) : ~Failed(requests[k])) =>
        /\ raised = "none"
        /\ pc # "aborted"
        /\ \A k \in 1..Len(requests) : ~IsTxn(requests[k])

\* the requests for a revision page that were answered with a page holding
\* a revision
PagesAnswered ==
    Len(SelectSeq(requests,
           LAMBDA q : IsPage(q) /\ ~Failed(q) /\ remote.pages[PageNo(q)] # <<>>))

\* C7: the progress of every page is an integer in 0..100 and computing it
\* never fails: no ZeroDivisionError is raised, also when the latest known
\* id equals the first id, and every page answered is then written.
C7_ProgressInRange ==
    /\ \A i \in 1..Len(progress) : progress[i].percent \in 0..100
    /\ raised # "ZeroDivisionError"
    /\ (pc \in {"for", "inner", "done"} => PagesWritten = PagesAnswered)
    /\ (pc = "aborted" /\ Failed(requests[Len(requests)])
            => PagesWritten = PagesAnswered)

\* C8: the progress printed for a page whose last record has the latest
\* known id is 100.
C8_FinalProgressIs100 ==
    \A i \in 1..Len(progress) :
        progress[i].current_last_rev_id = progress[i].last_rev_id
            => progress[i].percent = 100

\* C9: the progress values printed page after page never decrease.
C9_ProgressNeverDecreases ==
    \A i \in 1..Len(progress) : \A j \in (i + 1)..Len(progress) :
        progress[i].percent <= progress[j].percent

\* three pages were fetched and the progress grew from each to the next
C9_Witness ==
    /\ Len(progress) >= 3
    /\ progress[1].percent < progress[2].percent
    /\ progress[2].percent < progress[3].percent

\* C10: when the probe fails the run aborts with no output subdirectory and
\* no artifact made, and with no request but the probe.
C10_ProbeFailureLeavesNothing ==
    (pc = "aborted" /\ Len(requests) = 1 /\ IsProbe(requests[1])) =>
        /\ dirs = {}
        /\ files = {}
        /\ writes = <<>>

\* C11: every failed request, fatal (probe, revision page) or recovered
\* (transaction page), has put one record into the log: in every state the
\* log holds as many records as requests have failed, and a run aborted by
\* a failed request has logged it.
C11_EveryFailureLogged ==
    /\ Len(log) = Len(SelectSeq(requests, Failed))
    /\ (pc = "aborted" /\ Failed(requests[Len(requests)]) => log # <<>>)

\* C12: when the run aborts while handling a revision page, the message
\* names the cursor that was sent in the request for that page ('0' for
\* ''), whether the request failed or the failure came after its answer; it
\* names neither the cursor that answer returned nor False.
C12_MessageNamesSentCursor ==
    (pc = "aborted" /\ requests # <<>> /\ IsPage(requests[Len(requests)])) =>
        LET sent == requests[Len(requests)].after IN
        /\ message = <<"Getting the revisions after", MessageCursor(sent)>>
        /\ message[2] # FalseCursor
        /\ (~Failed(requests[Len(requests)]) =>
                message[2] # get_revisions(sent, "oldest", 100).after_cursor)

\* two requests of one pagination context
SameContext(a, b) ==
    a.endpoint = b.endpoint /\ a.order = b.order /\ a.object = b.object

\* C13: a request whose answer carries an error_code has failed: no
\* artifact holds the document of a failed request, no later request is
\* sent in the context of a failed request (so the cursor of its answer is
\* never used), and right after a rejected request the run has aborted
\* with that exception if it was a revision search (probe included), or is
\* still in the inner loop with the cursor of the revision exhausted, one
\* record logged for that revision and nothing raised if it was a
\* transaction search.
C13_RejectedIsNoPage ==
    /\ \A i \in 1..Len(writes) : ~Failed(requests[writes[i].req])
    /\ \A k \in 1..Len(requests) : \A j \in (k + 1)..Len(requests) :
          Failed(requests[k]) => ~SameContext(requests[j], requests[k])
    /\ caught = "RemoteRejected" =>
          LET q == requests[Len(requests)] IN
          /\ Failed(q)
          /\ IF IsTxn(q)
             THEN /\ pc = "inner"
                  /\ raised = "none"
                  /\ after_cursor_transactions = FalseCursor
                  /\ log # <<>>
                  /\ log[Len(log)].object_type = q.object[2]
             ELSE /\ pc = "aborted"
                  /\ raised = "RemoteRejected"

\* a transaction search has just been rejected, after a page of revisions
\* and a page of transactions were written
C13_Witness ==
    /\ caught = "RemoteRejected"
    /\ IsTxn(requests[Len(requests)])
    /\ PagesWritten >= 1
    /\ Len(writes) > PagesWritten

\* the request carries the constraint of that name
Carries(q, field) == \E c \in q.constraints : c[1] = field

\* C14: whatever the window, every revision search of the run, the probe
\* and every page request, carries constraints[createdStart] exactly when
\* from_date is not None and constraints[createdEnd] exactly when to_date is
\* not None, each with the value of its date; with both None it carries no
\* constraint.
C14_ConstraintsFollowWindow ==
    \A k \in 1..Len(requests) :
        LET q == requests[k] IN
        (IsProbe(q) \/ IsPage(q)) =>
            /\ Carries(q, "constraints[createdStart]") <=> from_date # None
            /\ Carries(q, "constraints[createdEnd]") <=> to_date # None
            /\ \A c \in q.constraints :
                  c[2] = IF c[1] = "constraints[createdStart]"
                         THEN from_date ELSE to_date
            /\ (from_date = None /\ to_date = None => q.constraints = {})

\* a window with a start and no end: the probe and two page requests were
\* sent
C14_Witness ==
    /\ from_date # None
    /\ to_date = None
    /\ Len(SelectSeq(requests, IsProbe)) = 1
    /\ Len(SelectSeq(requests, IsPage)) >= 2

\* request j has a request for a revision page before it
HasPageBefore(j) == \E k \in 1..(j - 1) : IsPage(requests[k])

\* the last request for a revision page before request j
LastPageReq(j) ==
    CHOOSE k \in 1..(j - 1) :
        IsPage(requests[k]) /\ \A m \in (k + 1)..(j - 1) : ~IsPage(requests[m])

\* the position in the page of the revision with this phid, 0 if it has none
PosIn(page, phid) ==
    IF \E i \in 1..Len(page) : page[i].phid = phid
    THEN CHOOSE i \in 1..Len(page) : page[i].phid = phid
    ELSE 0

\* the transaction request ended the walk of its revision: it failed, or
\* its answer had no further cursor
Finished(q) ==
    Failed(q) \/ get_transactions(q.object, q.after).after_cursor = FalseCursor

\* C15: the events of a run are ordered.  Artifacts are written in the
\* order of the requests that fetched them.  Every transaction request
\* follows the write of the artifact of the revision page its revision is
\* on; it is the first request of the first revision of that page, or goes
\* on with the unfinished walk of the revision of the request before it
\* (whose page is written), or starts the walk of the next revision of the
\* page after the walk before it has finished.  A further revision page is
\* requested, and the run returns, only after the walk of the last revision
\* of the current page has finished.
C15_EventsInOrder ==
    /\ \A i \in 1..(Len(writes) - 1) : writes[i].req < writes[i + 1].req
    /\ \A j \in 1..Len(requests) :
          LET q == requests[j] IN
          /\ (IsTxn(q) /\ ~Failed(q)) =>
                \E i \in 1..Len(writes) :
                    writes[i].req = j /\ InTransactions(writes[i])
          /\ IsTxn(q) =>
                /\ HasPageBefore(j)
                /\ LET k == LastPageReq(j)
                       page == remote.pages[PageNo(requests[k])]
                       pos == PosIn(page, q.object)
                   IN
                   /\ ~Failed(requests[k])
                   /\ \E i \in 1..Len(writes) :
                         writes[i].req = k /\ InRevisions(writes[i])
                   /\ pos >= 1
                   /\ IF j - 1 = k
                      THEN pos = 1 /\ q.after = EmptyCursor
                      ELSE LET p == requests[j - 1] IN
                           IF p.object = q.object
                           THEN ~Finished(p) /\ q.after # EmptyCursor
                           ELSE /\ Finished(p)
                                /\ pos = PosIn(page, p.object) + 1
                                /\ q.after = EmptyCursor
          /\ (IsPage(q) /\ HasPageBefore(j)) =>
                LET k == LastPageReq(j)
                    page == remote.pages[PageNo(requests[k])]
                    p == requests[j - 1]
                IN /\ j - 1 > k
                   /\ IsTxn(p)
                   /\ Finished(p)
                   /\ PosIn(page, p.object) = Len(page)
    /\ pc = "done" =>
          LET j == Len(requests) + 1
              p == requests[Len(requests)]
          IN /\ HasPageBefore(j)
             /\ IsTxn(p)
             /\ Finished(p)
             /\ PosIn(remote.pages[PageNo(requests[LastPageReq(j)])], p.object)
                    = Len(remote.pages[PageNo(requests[LastPageReq(j)])])

\* the run has returned after two revision pages, the first with two
\* revisions, and after a walk of two transaction pages
C15_Witness ==
    /\ pc = "done"
    /\ PagesWritten >= 2
    /\ Len(remote.pages[1]) = 2
    /\ \E j \in 2..Len(requests) :
          /\ IsTxn(requests[j]) /\ IsTxn(requests[j - 1])
          /\ requests[j].object = requests[j - 1].object

\* the cursor get_revisions or get_transactions returned for a request that
\* did not fail
Returned(q) ==
    IF IsTxn(q) THEN get_transactions(q.object, q.after).after_cursor
    ELSE get_revisions(q.after, q.order, q.limit).after_cursor

\* the context a token sent with this request has to be of
ContextOf(q) ==
    IF IsTxn(q) THEN q.object ELSE IF IsProbe(q) THEN NewestCtx ELSE OldestCtx

\* C16: cursors are never cross-applied.  The first request of a pagination
\* context (the probe, the revision pages, the transactions of one
\* revision) carries ''; every later request of the context carries the
\* token the request before it in that context returned, a token of that
\* very context.
C16_CursorsStayInContext ==
    \A j \in 1..Len(requests) :
        LET q == requests[j]
            before == {k \in 1..(j - 1) : SameContext(requests[k], q)}
        IN IF before = {}
           THEN q.after = EmptyCursor
           ELSE LET k == CHOOSE m \in before : \A n \in before : n <= m IN
                /\ ~Failed(requests[k])
                /\ q.after = Returned(requests[k])
                /\ q.after.kind = "token"
                /\ q.after.ctx = ContextOf(q)

\* a second revision page was requested with the token of the first, and
\* two revisions had a second transaction page requested, each with its
\* own token
C16_Witness ==
    /\ \E j \in 1..Len(requests) :
          IsPage(requests[j]) /\ requests[j].after = Token(OldestCtx, 1)
    /\ \E i, j \in 1..Len(requests) :
          /\ IsTxn(requests[i]) /\ IsTxn(requests[j])
          /\ requests[i].object # requests[j].object
          /\ requests[i].after = Token(requests[i].object, 1)
          /\ requests[j].after = Token(requests[j].object, 1)

\* C17: False ends its pagination context and is never sent: no request
\* carries False (or null) as its 'after' value, and a request is never
\* followed by another of its context once it has failed or has returned
\* False; when run() returns the cursor of the revisions is False and the
\* last revision page requested was the one answered without a cursor.
C17_SentinelEndsContext ==
    /\ \A j \in 1..Len(requests) :
          /\ requests[j].after # FalseCursor
          /\ requests[j].after # NoneCursor
          /\ \A k \in 1..(j - 1) :
                SameContext(requests[k], requests[j]) =>
                    /\ ~Failed(requests[k])
                    /\ Returned(requests[k]) # FalseCursor
    /\ pc = "done" =>
          /\ after_cursor = FalseCursor
          /\ \E k \in 1..Len(requests) :
                /\ IsPage(requests[k]) /\ ~Failed(requests[k])
                /\ Returned(requests[k]) = FalseCursor

\* the run has returned; one walk ended on a failed request and another on
\* an answer without a cursor after two pages
C17_Witness ==
    /\ pc = "done"
    /\ \E k \in 1..Len(requests) : IsTxn(requests[k]) /\ Failed(requests[k])
    /\ \E k \in 1..Len(requests) :
          /\ IsTxn(requests[k]) /\ ~Failed(requests[k])
          /\ requests[k].after # EmptyCursor
          /\ Returned(requests[k]) = FalseCursor

\* C18: first_rev_id is 0 until a revision page with a record has been
\* answered; from then on it is the id of the first record of the first
\* page and stays so in every later state, every revision artifact is named
\* with it, and the last id of every page processed is at least that id.
C18_FirstRevIdFixed ==
    /\ first_rev_id = 0 <=> PagesAnswered = 0
    /\ first_rev_id # 0 => first_rev_id = remote.pages[1][1].id
    /\ \A i \in 1..Len(progress) :
          progress[i].current_last_rev_id >= first_rev_id
    /\ \A i \in 1..Len(writes) :
          InRevisions(writes[i]) => writes[i].name[1] = first_rev_id

\* three pages were processed, the later ones starting above first_rev_id
C18_Witness ==
    /\ Len(progress) >= 3
    /\ first_rev_id # 0
    /\ progress[2].current_first_rev_id > first_rev_id
    /\ progress[3].current_first_rev_id > first_rev_id

\* the steps a run can still take at most: what is left of the walk of the
\* current revision, of the for loop over the current page, and of the
\* pages behind after_cursor, each loop counted with its exit
RECURSIVE WalksLeft(_)
WalksLeft(revs) ==
    IF revs = <<>> THEN 0
    ELSE remote.txns[Head(revs).id] + 2 + WalksLeft(Tail(revs))

RECURSIVE PagesLeft(_)
PagesLeft(pages) ==
    IF pages = <<>> THEN 0
    ELSE WalksLeft(Head(pages)) + 2 + PagesLeft(Tail(pages))

OuterLeft ==
    IF after_cursor = FalseCursor THEN 1
    ELSE 1 + PagesLeft(SubSeq(remote.pages,
                 PageAsked(after_cursor, OldestCtx, Len(remote.pages)),
                 Len(remote.pages)))

InnerLeft ==
    IF after_cursor_transactions = FalseCursor THEN 0
    ELSE remote.txns[revisions[idx].id] + 1
             - PageAsked(after_cursor_transactions, revisions[idx].phid,
                         remote.txns[revisions[idx].id])

StepsLeft ==
    IF pc = "main" THEN 2 + OuterLeft
    ELSE IF pc = "run" THEN 1 + OuterLeft
    ELSE IF pc = "outer" THEN OuterLeft
    ELSE IF pc = "for"
         THEN WalksLeft(SubSeq(revisions, idx, Len(revisions))) + 1 + OuterLeft
    ELSE IF pc = "inner"
         THEN InnerLeft + 1
                  + WalksLeft(SubSeq(revisions, idx + 1, Len(revisions)))
                  + 1 + OuterLeft
    ELSE 0

Terminated == pc \in {"done", "aborted"}

\* C19: against a remote that ends each of its contexts after finitely many
\* pages, run() eventually terminates whatever requests fail.  A run that
\* has not ended can always take a step, every step takes at least one from
\* the steps that are left at most, and none are left exactly when run() has
\* returned (the cursor of the revisions then being False) or has been left
\* by an exception.  Within a walk every request takes one from what is
\* left of the walk and a failed request takes all of it.
C19_RunTerminates ==
    /\ [](/\ StepsLeft >= 0
          /\ StepsLeft = 0 <=> Terminated
          /\ ~Terminated => ENABLED Next
          /\ pc = "done" => after_cursor = FalseCursor /\ raised = "none"
          /\ pc = "aborted" => raised # "none")
    /\ [][/\ StepsLeft' < StepsLeft
          /\ (pc = "inner" /\ pc' = "inner") =>
                /\ InnerLeft' < InnerLeft
                /\ (Failed(requests'[Len(requests')]) => InnerLeft' = 0)]_vars
    /\ <>Terminated

\* the run has ended after the most steps a remote of this size allows: no
\* request failed and every revision had as many transaction pages as any
C19_Witness ==
    /\ pc = "done"
    /\ Len(remote.pages) >= 3
    /\ \A k \in 1..Len(requests) : ~Failed(requests[k])
    /\ Len(requests) >= 1 + 3 + 3 * 2

\* C20: the page whose answer carries the null cursor is not dropped.  Once
\* the run has ended, the revision page answered without a cursor is in
\* the revisions directory and each of its revisions has had a walk
\* started; at every point, the transaction page answered without a cursor
\* is in the artifact whose index is the number of pages fetched before it;
\* and a run that returned with no failed request has started exactly one
\* walk for every revision of the remote, in order.
C20_LastPageKept ==
    /\ \A k \in 1..Len(requests) :
          LET q == requests[k] IN
          /\ (Terminated /\ IsPage(q) /\ ~Failed(q)
                  /\ Returned(q) = FalseCursor) =>
                /\ \E f \in RevisionFiles :
                      f.content = Doc(OldestCtx, PageNo(q))
                /\ \A i \in 1..Len(remote.pages[PageNo(q)]) :
                      \E j \in (k + 1)..Len(requests) :
                          /\ WalkStart(requests[j])
                          /\ requests[j].object = remote.pages[PageNo(q)][i].phid
          /\ (IsTxn(q) /\ ~Failed(q) /\ Returned(q) = FalseCursor) =>
                LET n == PageAsked(q.after, q.object, remote.txns[q.object[2]])
                IN \E f \in TransactionFiles(q.object[2]) :
                      f.name[2] = n - 1 /\ f.content = Doc(q.object, n)
    /\ (pc = "done" /\ \A k \in 1..Len(requests) : ~Failed(requests[k])) =>
          /\ Len(WalkStarts) = Len(Flatten(remote.pages))
          /\ \A i \in 1..Len(WalkStarts) :
                WalkStarts[i].object = Flatten(remote.pages)[i].phid

====
